---- MODULE Spec2Model ----
(***************************************************************************)
(* Verification model of zk-json: the bit-vector JSON grammar machine      *)
(* (json_state_machine.rs), its transition-table generator, and the        *)
(* structural halo2 circuit (circuits/json.rs).                            *)
(***************************************************************************)
EXTENDS Integers, Sequences, FiniteSets, TLC

VARIABLES
    state,          \* grammar run: the current State (a Vec<StateBits>, order kept)
    input,          \* grammar run: the character classes consumed so far
    obj,            \* grammar run on object inputs: where the input stands in the object grammar
    lookup_table,   \* generator: Vec<(before, after, char)>
    bfs_buffer,     \* generator: work stack, Vec<u64>
    bfs_memory,     \* generator: HashSet<u64>
    before,         \* generator: encoding popped in the current while-iteration
    j,              \* generator: next symbol of the inner for loop
    bfs_pc,         \* generator: "pop" | "row" | "done" | "idle"
    raw,            \* circuit: the input symbols (JsonCircuit.raw)
    region,         \* circuit: assigned rows, one record per row
    acc,            \* circuit: accumulators carried by synthesize's loop
    circ_pc         \* circuit: "assign" | "done" | "idle"

vars == <<state, input, obj, lookup_table, bfs_buffer, bfs_memory, before, j, bfs_pc,
          raw, region, acc, circ_pc>>

grammarVars == <<state, input, obj>>
bfsVars     == <<lookup_table, bfs_buffer, bfs_memory, before, j, bfs_pc>>
circuitVars == <<raw, region, acc, circ_pc>>

(***************************************************************************)
(* Bounds of the model.                                                    *)
(***************************************************************************)
MaxInput == 5        \* longest class sequence of the free grammar run
MaxObjectLen == 14   \* longest object input of the object-grammar run
MaxPairs == 2        \* pairs counted in an object input (the count saturates)
MaxTableRows == 5000 \* rows the generator may emit before the model stops it
MaxRows == 6         \* longest input of the structural circuit
MaxProverRows == 5   \* longest input a prover assigns a witness of its own to
MaxProverLevel == 1  \* largest level such a prover writes
MaxChars == 1        \* longest symbol string classified and folded
MaxOps == 3          \* operations applied to a State built from State::new()
MaxApply == 1        \* transitions applied to an arbitrary flag set
MaxLiteral == 1      \* symbols or escape pairs inside a string literal of a circuit input
MaxRun == 3          \* longest run of digits and decimal points in a value
MaxSurplus == 2      \* surplus close braces after an object
MaxLookups == 8      \* longest symbol sequence run through the table
MaxFold == 8         \* transitions folded from the start state without a log
MaxBlank == 2        \* blanks between the braces of an empty object
MaxVariantRows == 4  \* longest input compared with its variants

(***************************************************************************)
(* StateBits: the enum discriminants are the bit indices.                  *)
(***************************************************************************)
IsInvalid         == 0
NewDict           == 1
EndDict           == 2
Separator         == 3
IsKey             == 4
IsValue           == 5
KeyValueDelimiter == 6
IsStr             == 7
IsStrEscaped      == 8
WordBuffering     == 9
WordComplete      == 10

StateBits == IsInvalid..WordComplete

\* StateBits::from(id): the identity on 0..10; every other id panics.
StateBits_from(id) == CASE id \in StateBits -> id

(***************************************************************************)
(* SpecialChar and the classifier SpecialChar::from(char).                 *)
(***************************************************************************)
SpecialChar == {"Backslash", "DoubleQuote", "OpenBrace", "CloseBrace", "Colon",
                "Comma", "WhiteSpace", "Numeric", "Other"}

\* char::is_whitespace on U+0000..U+00FF (Unicode White_Space).
is_whitespace(c) == c \in (9..13) \cup {32, 133, 160}

\* char::is_digit(10): ASCII '0'..'9'.
is_digit(c) == c \in 48..57

\* SpecialChar::from with '.' left out of the Numeric guard
SpecialChar_from_digitsOnly(ch) ==
    CASE ch = 92 -> "Backslash"
      [] ch = 34 -> "DoubleQuote"
      [] ch = 123 -> "OpenBrace"
      [] ch = 125 -> "CloseBrace"
      [] ch = 58 -> "Colon"
      [] ch = 44 -> "Comma"
      [] OTHER -> IF is_whitespace(ch) THEN "WhiteSpace"
                  ELSE IF is_digit(ch) THEN "Numeric"
                  ELSE "Other"

SpecialChar_from(ch) ==
    CASE ch = 92 -> "Backslash"
      [] ch = 34 -> "DoubleQuote"
      [] ch = 123 -> "OpenBrace"
      [] ch = 125 -> "CloseBrace"
      [] ch = 58 -> "Colon"
      [] ch = 44 -> "Comma"
      [] OTHER -> IF is_whitespace(ch) THEN "WhiteSpace"
                  ELSE IF is_digit(ch) \/ ch = 46 THEN "Numeric"
                  ELSE "Other"

(***************************************************************************)
(* State(Vec<StateBits>) and StateCheck.  A State is the sequence of its   *)
(* flags in the order they were pushed; the derived PartialEq compares the *)
(* vectors element by element.  The operations that build a State are      *)
(* functions, so that their arguments are values when they are applied.    *)
(***************************************************************************)
State == Seq(StateBits)

contains(v, x) == \E i \in 1..Len(v) : v[i] = x

\* retain_ne removing the flag only where it is the newest element
retain_ne_popsLast(v, bit) ==
    IF v # <<>> /\ v[Len(v)] = bit THEN SubSeq(v, 1, Len(v) - 1) ELSE v

\* Vec::retain(|&x| x != bit)
retain_ne(v, bit) == SelectSeq(v, LAMBDA x : x # bit)

new == <<>>

start == <<>>

invalid == <<IsInvalid>>

on[self \in State, bit \in StateBits] ==
    IF ~contains(self, bit) THEN Append(self, bit) ELSE self

off[self \in State, bit \in StateBits] ==
    IF contains(self, bit) THEN retain_ne(self, bit) ELSE self

flip[self \in State, bit \in StateBits] ==
    IF contains(self, bit) THEN retain_ne(self, bit) ELSE Append(self, bit)

check(self, bit) == contains(self, bit)

is_null(self) == self = <<>>

check_and(self, bits) == \A i \in 1..Len(bits) : contains(self, bits[i])

check_or(self, bits) == \E i \in 1..Len(bits) : contains(self, bits[i])

\* The set of flags a State holds (what the specification calls the state).
Flags(self) == {self[i] : i \in 1..Len(self)}

(***************************************************************************)
(* StateEncoding.                                                          *)
(***************************************************************************)
\* the shift with its operands exchanged: state_bit << 1
shl_one_swapped(state_bit) == 2 * state_bit

\* 1 << (state_bit as u64)
shl_one(state_bit) == 2 ^ state_bit

\* state_id += 1 << state_bit, over the vector
encode[self \in State] ==
    IF self = <<>> THEN 0 ELSE shl_one(Head(self)) + encode[Tail(self)]

\* while id != 0 { if id % 2 == 1 { on(from(i)) } id >>= 1; i += 1 }
decode_loop[st \in State, id \in Nat, i \in Nat] ==
    IF id = 0 THEN st
    ELSE decode_loop[IF id % 2 = 1 THEN on[st, StateBits_from(i)] ELSE st,
                     id \div 2, i + 1]

decode[id \in Nat] == decode_loop[new, id, 0]

(***************************************************************************)
(* JsonStateMutation::mutate.                                              *)
(***************************************************************************)
\* if state.check(marker) { state.on(target); state.off(marker); }
settle_one[s \in State, marker \in StateBits, target \in StateBits] ==
    IF check(s, marker) THEN off[on[s, target], marker] ELSE s

\* "Complete unconditional step mutations"
settle(s0) ==
    settle_one[settle_one[settle_one[settle_one[s0,
        NewDict, IsKey], EndDict, WordComplete], Separator, IsKey],
        KeyValueDelimiter, IsValue]

\* else if state.is_null() { match action ... }
mutate_null(s, action) ==
    CASE action = "OpenBrace" -> on[s, NewDict]
      [] action = "WhiteSpace" -> s
      [] OTHER -> invalid

\* the in-string match with braces rejected instead of falling to `_`
mutate_str_rejectsBraces(s, action) ==
    CASE action = "Backslash" -> on[s, IsStrEscaped]
      [] action = "DoubleQuote" -> off[off[on[s, WordComplete], WordBuffering], IsStr]
      [] action \in {"OpenBrace", "CloseBrace"} -> invalid
      [] OTHER -> on[s, IsStr]

\* else if state.check(IsStr) { match action ... }
mutate_str(s, action) ==
    CASE action = "Backslash" -> on[s, IsStrEscaped]
      [] action = "DoubleQuote" -> off[off[on[s, WordComplete], WordBuffering], IsStr]
      [] OTHER -> on[s, IsStr]

\* arm_OpenBrace without the `!state.check(WordComplete)` test
arm_OpenBrace_anyValue(s) ==
    IF check(s, IsValue)
    THEN off[on[s, NewDict], IsValue]
    ELSE invalid

arm_OpenBrace(s) ==
    IF check(s, IsValue) /\ ~check(s, WordComplete)
    THEN off[on[s, NewDict], IsValue]
    ELSE invalid

\* arm_CloseBrace accepting a close brace in key position too
arm_CloseBrace_acceptsKey(s) ==
    IF check_or(s, <<IsValue, IsKey>>)
    THEN off[off[off[on[on[s, EndDict], IsValue], IsKey], WordComplete], WordBuffering]
    ELSE invalid

\* arm_CloseBrace rejecting a brace that follows a completed word
arm_CloseBrace_rejectsComplete(s) ==
    IF check(s, IsValue) /\ ~check(s, WordComplete)
    THEN off[off[on[s, EndDict], WordComplete], WordBuffering]
    ELSE invalid

arm_CloseBrace(s) ==
    IF check(s, IsValue)
    THEN off[off[on[s, EndDict], WordComplete], WordBuffering]
    ELSE invalid

\* arm_Comma without `state.off(IsValue)`
arm_Comma_keepsValue(s) ==
    IF check(s, IsValue)
    THEN off[off[on[s, Separator], WordComplete], WordBuffering]
    ELSE invalid

arm_Comma(s) ==
    IF check(s, IsValue)
    THEN off[off[off[on[s, Separator], IsValue], WordComplete], WordBuffering]
    ELSE invalid

\* arm_Colon without `state.off(WordComplete)`
arm_Colon_keepsWordComplete(s) ==
    IF check(s, IsKey)
    THEN off[on[s, KeyValueDelimiter], IsKey]
    ELSE invalid

arm_Colon(s) ==
    IF check(s, IsKey)
    THEN off[off[on[s, KeyValueDelimiter], IsKey], WordComplete]
    ELSE invalid

arm_DoubleQuote(s) ==
    IF check(s, WordComplete) THEN invalid
    ELSE on[on[s, IsStr], WordBuffering]

\* arm_WhiteSpace without `state.off(WordBuffering)`
arm_WhiteSpace_keepsBuffering(s) ==
    IF check_and(s, <<IsValue, WordBuffering>>)
    THEN on[s, WordComplete]
    ELSE s

arm_WhiteSpace(s) ==
    IF check_and(s, <<IsValue, WordBuffering>>)
    THEN off[on[s, WordComplete], WordBuffering]
    ELSE s

\* arm_Numeric taking one symbol only: a second one is rejected
arm_Numeric_singleSymbol(s) ==
    IF check(s, IsValue) /\ ~check(s, WordComplete) /\ ~check(s, WordBuffering)
    THEN on[s, WordBuffering]
    ELSE invalid

arm_Numeric(s) ==
    IF check(s, IsValue) /\ ~check(s, WordComplete)
    THEN on[s, WordBuffering]
    ELSE invalid

\* arm_default with `state.on(IsInvalid)` in place of `state = S::invalid()`
arm_default_setsFlag(s) == on[s, IsInvalid]

\* _ => state = S::invalid()   (Backslash and Other outside a string)
arm_default(s) == invalid

\* else { match action ... }
mutate_struct(s, action) ==
    CASE action = "OpenBrace" -> arm_OpenBrace(s)
      [] action = "CloseBrace" -> arm_CloseBrace(s)
      [] action = "Comma" -> arm_Comma(s)
      [] action = "Colon" -> arm_Colon(s)
      [] action = "DoubleQuote" -> arm_DoubleQuote(s)
      [] action = "WhiteSpace" -> arm_WhiteSpace(s)
      [] action = "Numeric" -> arm_Numeric(s)
      [] OTHER -> arm_default(s)

\* the escape branch clearing the flag and then matching the character
mutate_escaped_thenMatches(s, action) ==
    CASE action = "Backslash" -> s
      [] action = "DoubleQuote" -> off[off[on[off[s, IsStrEscaped], WordComplete], WordBuffering], IsStr]
      [] OTHER -> off[s, IsStrEscaped]

\* if state.check(IsStrEscaped) { state.off(IsStrEscaped); }
mutate_escaped(s, action) == off[s, IsStrEscaped]

\* "Match logic", on the settled state
mutate_match[s \in State, action \in SpecialChar] ==
    IF check(s, IsStrEscaped) THEN mutate_escaped(s, action)
    ELSE IF is_null(s) THEN mutate_null(s, action)
    ELSE IF check(s, IsStr) THEN mutate_str(s, action)
    ELSE mutate_struct(s, action)

\* "Propagate the invalid state", else settle and match
mutate_from(self, action) ==
    IF check(self, IsInvalid) THEN self
    ELSE mutate_match[settle(self), action]

mutate[self \in State, action \in SpecialChar] == mutate_from(self, action)

(***************************************************************************)
(* Grammar run: the fold of mutate over an input, one class per step, as   *)
(* in test_state_mutation / test_encoding_decoding.                        *)
(***************************************************************************)
ObjStart == [pos |-> "start", len |-> 0, pairs |-> 0, escaped |-> FALSE]

GrammarIdle == state = start /\ input = <<>> /\ obj = ObjStart
BfsIdle == /\ lookup_table = <<>> /\ bfs_buffer = <<>> /\ bfs_memory = {}
           /\ before = 0 /\ j = 0 /\ bfs_pc = "idle"
CircuitIdle == raw = <<>> /\ region = <<>> /\ acc = <<>> /\ circ_pc = "idle"

Init == GrammarIdle /\ BfsIdle /\ CircuitIdle

\* let end_state = state.mutate(action); state = end_state;
Step(action) ==
    /\ Len(input) < MaxInput
    /\ state' = mutate[state, action]
    /\ input' = Append(input, action)
    /\ UNCHANGED <<obj, bfsVars, circuitVars>>

Next == \E action \in SpecialChar : Step(action)

Spec == Init /\ [][Next]_vars

(***************************************************************************)
(* Plain JSON lexing of a class sequence, used to state which symbols of   *)
(* an input stand outside a string: a double quote opens or closes a       *)
(* string unless a backslash inside the string escapes it.                 *)
(***************************************************************************)
RECURSIVE LexAfter(_, _)
LexAfter(seq, k) ==
    IF k = 0 THEN [inStr |-> FALSE, esc |-> FALSE]
    ELSE LET p == LexAfter(seq, k - 1)
             c == seq[k]
         IN IF p.esc THEN [inStr |-> p.inStr, esc |-> FALSE]
            ELSE IF p.inStr
                 THEN IF c = "Backslash" THEN [inStr |-> TRUE, esc |-> TRUE]
                      ELSE IF c = "DoubleQuote" THEN [inStr |-> FALSE, esc |-> FALSE]
                      ELSE p
                 ELSE IF c = "DoubleQuote" THEN [inStr |-> TRUE, esc |-> FALSE]
                      ELSE p

OutsideStr(seq, i) == ~LexAfter(seq, i - 1).inStr

\* A Colon outside a string that is followed, after optional whitespace, by
\* another Colon, a Comma or a CloseBrace instead of a value.
ValueLessColon(seq) ==
    \E i \in 1..Len(seq) : \E k \in (i + 1)..Len(seq) :
        /\ seq[i] = "Colon" /\ OutsideStr(seq, i)
        /\ \A m \in (i + 1)..(k - 1) : seq[m] = "WhiteSpace"
        /\ seq[k] \in {"Colon", "Comma", "CloseBrace"}

\* In key position (after `{` or `,` outside a string) the Colon is reached
\* with no double-quoted string before it.
UnquotedKey(seq) ==
    \E i \in 1..Len(seq) : \E k \in (i + 1)..Len(seq) :
        /\ seq[i] \in {"OpenBrace", "Comma"} /\ OutsideStr(seq, i)
        /\ seq[k] = "Colon"
        /\ \A m \in (i + 1)..(k - 1) : seq[m] \notin {"DoubleQuote", "OpenBrace", "Comma", "Colon"}

(***************************************************************************)
(* C1: round trip.  For every State s reachable from the start state by    *)
(* mutate steps, State::decode(s.encode()) == s (State's derived ==).      *)
(* The statement fails on the code: the vector keeps insertion order and   *)
(* decode rebuilds it in ascending bit order.                              *)
(***************************************************************************)
C1_RoundTrip == decode[encode[state]] = state

(***************************************************************************)
(* C2: IsInvalid is absorbing.  A step from a state with IsInvalid set     *)
(* returns the same state, and every state a step produces that has        *)
(* IsInvalid set is exactly the singleton {IsInvalid}.                     *)
(***************************************************************************)
C2_InvalidAbsorbing ==
    [][/\ check(state, IsInvalid) => state' = state
       /\ check(state', IsInvalid) => state' = <<IsInvalid>>]_vars

\* an invalid state has been stepped again, after a valid prefix of two symbols
C2_Witness ==
    /\ Len(input) >= 4
    /\ state = <<IsInvalid>>
    /\ input[1] = "OpenBrace" /\ input[2] = "DoubleQuote" /\ input[3] = "DoubleQuote"
    /\ input[4] = "Other"

(***************************************************************************)
(* C6: grammar rejection.  Any input with a value-less colon or with a     *)
(* key that is not a double-quoted string ends in a state with IsInvalid.  *)
(* The statement fails on the code: only IsValue / IsKey are tested, so    *)
(* `{"a":}` , `{"a":,` and `{:` are accepted.                              *)
(***************************************************************************)
C6_GrammarRejection ==
    (ValueLessColon(input) \/ UnquotedKey(input)) => check(state, IsInvalid)

(***************************************************************************)
(* Object inputs: a single object of one or more comma-separated pairs,    *)
(* each a double-quoted key, a colon and a value that is a digit token or  *)
(* a double-quoted string, with optional whitespace between tokens.        *)
(* ObjectDelta is the recogniser of that grammar over character classes;   *)
(* "bad" is the position of an input that left the grammar.                *)
(***************************************************************************)
ObjectDelta(pos, c) ==
    CASE pos = "start" -> IF c = "WhiteSpace" THEN "start"
                          ELSE IF c = "OpenBrace" THEN "key" ELSE "bad"
      [] pos = "key" -> IF c = "WhiteSpace" THEN "key"
                        ELSE IF c = "DoubleQuote" THEN "kstr" ELSE "bad"
      [] pos = "kstr" -> IF c = "Backslash" THEN "kesc"
                         ELSE IF c = "DoubleQuote" THEN "colon" ELSE "kstr"
      [] pos = "kesc" -> "kstr"
      [] pos = "colon" -> IF c = "WhiteSpace" THEN "colon"
                          ELSE IF c = "Colon" THEN "val" ELSE "bad"
      [] pos = "val" -> IF c = "WhiteSpace" THEN "val"
                        ELSE IF c = "Numeric" THEN "num"
                        ELSE IF c = "DoubleQuote" THEN "vstr" ELSE "bad"
      [] pos = "num" -> IF c = "Numeric" THEN "num"
                        ELSE IF c = "WhiteSpace" THEN "after"
                        ELSE IF c = "Comma" THEN "key"
                        ELSE IF c = "CloseBrace" THEN "end" ELSE "bad"
      [] pos = "vstr" -> IF c = "Backslash" THEN "vesc"
                         ELSE IF c = "DoubleQuote" THEN "after" ELSE "vstr"
      [] pos = "vesc" -> "vstr"
      [] pos = "after" -> IF c = "WhiteSpace" THEN "after"
                          ELSE IF c = "Comma" THEN "key"
                          ELSE IF c = "CloseBrace" THEN "end" ELSE "bad"
      [] pos = "end" -> IF c = "WhiteSpace" THEN "end" ELSE "bad"
      [] OTHER -> "bad"

InitObject == Init

\* One step of the fold of test_state_mutation over an object input: the next
\* class is any class that keeps the input inside the object grammar.
StepObject(action) ==
    /\ obj.len < MaxObjectLen
    /\ ObjectDelta(obj.pos, action) # "bad"
    /\ state' = mutate[state, action]
    /\ obj' = [pos |-> ObjectDelta(obj.pos, action),
               len |-> obj.len + 1,
               pairs |-> IF obj.pos = "colon" /\ action = "Colon" /\ obj.pairs < MaxPairs
                         THEN obj.pairs + 1 ELSE obj.pairs,
               escaped |-> obj.escaped \/ (obj.pos = "kesc" /\ action = "DoubleQuote")]
    /\ UNCHANGED <<input, bfsVars, circuitVars>>

NextObject == \E action \in SpecialChar : StepObject(action)

SpecObject == InitObject /\ [][NextObject]_vars

(***************************************************************************)
(* C7: grammar acceptance.  Folding mutate over an object input never      *)
(* produces a state with IsInvalid, and after the closing brace the state  *)
(* has IsStr clear and NewDict clear.                                      *)
(***************************************************************************)
C7_GrammarAcceptance ==
    /\ ~check(state, IsInvalid)
    /\ obj.pos = "end" => ~check(state, IsStr) /\ ~check(state, NewDict)

\* a closed object of two pairs whose key held a backslash-escaped quote
C7_Witness ==
    /\ obj.pos = "end" /\ obj.pairs = 2 /\ obj.escaped
    /\ ~check(state, IsInvalid) /\ check(state, EndDict)

(***************************************************************************)
(* gen_lookup::bfs_gen_lookup_table.  One action per pop of the while      *)
(* loop, one for the loop exit; the inner for loop is taken one iteration  *)
(* at a time (BfsRow) or run to its end (BfsExpand).                       *)
(***************************************************************************)
\* for j in 0..=255
last_symbol == 255

\* table_row with the tuple built as (after, before, c)
table_row_swapped(b, c) ==
    <<encode[mutate[decode[b], SpecialChar_from(c)]], b, c>>

\* let c = char::from(j); ... let row = (before, after, c);
table_row(b, c) ==
    <<b, encode[mutate[decode[b], SpecialChar_from(c)]], c>>

\* should_push testing `before` where the code tests `after`
should_push_testsBefore(b, after, memory, buffer) ==
    b \notin memory /\ ~contains(buffer, b)

\* should_push without the visited set
should_push_noMemory(b, after, memory, buffer) ==
    ~contains(buffer, after)

\* should_push without the test of the work stack
should_push_noBuffer(b, after, memory, buffer) ==
    after \notin memory

\* if !bfs_memory.contains(&after) && !bfs_buffer.contains(&after)
should_push(b, after, memory, buffer) ==
    after \notin memory /\ ~contains(buffer, after)

InitBfs ==
    /\ GrammarIdle /\ CircuitIdle
    /\ lookup_table = <<>>
    /\ bfs_buffer = <<encode[start]>>
    /\ bfs_memory = {}
    /\ before = 0
    /\ j = 0
    /\ bfs_pc = "pop"

\* while !bfs_buffer.is_empty() { let before = bfs_buffer.pop().unwrap(); bfs_memory.insert(before);
BfsPop ==
    /\ bfs_pc = "pop"
    /\ bfs_buffer # <<>>
    /\ before' = bfs_buffer[Len(bfs_buffer)]
    /\ bfs_buffer' = SubSeq(bfs_buffer, 1, Len(bfs_buffer) - 1)
    /\ bfs_memory' = bfs_memory \cup {before'}
    /\ j' = 0
    /\ bfs_pc' = "row"
    /\ UNCHANGED <<lookup_table, grammarVars, circuitVars>>

\* the body of `for j in 0..=255`
BfsRow ==
    /\ bfs_pc = "row"
    /\ Len(lookup_table) < MaxTableRows
    /\ LET row == table_row(before, j)
           after == row[2]
       IN /\ lookup_table' = Append(lookup_table, row)
          /\ bfs_buffer' = IF should_push(before, after, bfs_memory, bfs_buffer)
                           THEN Append(bfs_buffer, after) ELSE bfs_buffer
    /\ j' = IF j = last_symbol THEN 0 ELSE j + 1
    /\ bfs_pc' = IF j = last_symbol THEN "pop" ELSE "row"
    /\ UNCHANGED <<bfs_memory, before, grammarVars, circuitVars>>

\* The row at which the loop first meets the after-state `a`.
first_row(rows, a) ==
    CHOOSE k \in 1..Len(rows) :
        rows[k][2] = a /\ \A m \in 1..(k - 1) : rows[m][2] # a

\* The work stack after the loop has pushed the after-states `todo`, each once,
\* in the order of their first rows.
RECURSIVE push_in_order(_, _, _)
push_in_order(rows, todo, buffer) ==
    IF todo = {} THEN buffer
    ELSE LET a == CHOOSE x \in todo :
                      \A y \in todo : first_row(rows, x) <= first_row(rows, y)
         IN push_in_order(rows, todo \ {a}, Append(buffer, a))

\* The work stack after the loop has emitted `rows`: an after-state is pushed
\* at its first row if it passes should_push there, and never again (the push
\* itself makes the second test of should_push fail).
pushed(rows, memory, buffer) ==
    push_in_order(rows,
                  {rows[k][2] : k \in {m \in 1..Len(rows) :
                       should_push(rows[m][1], rows[m][2], memory, buffer)}},
                  buffer)

\* `for j in 0..=255 { ... }` run from the current j to its end in one step:
\* the same rows and pushes as BfsRow taken last_symbol - j + 1 times.
BfsExpand ==
    /\ bfs_pc = "row"
    /\ Len(lookup_table) + (last_symbol - j + 1) <= MaxTableRows
    /\ LET rows == [k \in 1..(last_symbol - j + 1) |-> table_row(before, j + k - 1)]
       IN /\ lookup_table' = lookup_table \o rows
          /\ bfs_buffer' = pushed(rows, bfs_memory, bfs_buffer)
    /\ j' = 0
    /\ bfs_pc' = "pop"
    /\ UNCHANGED <<bfs_memory, before, grammarVars, circuitVars>>

\* the while condition fails: return lookup_table
BfsReturn ==
    /\ bfs_pc = "pop"
    /\ bfs_buffer = <<>>
    /\ bfs_pc' = "done"
    /\ UNCHANGED <<lookup_table, bfs_buffer, bfs_memory, before, j, grammarVars, circuitVars>>

NextBfs == BfsPop \/ BfsRow \/ BfsExpand \/ BfsReturn

SpecBfs == InitBfs /\ [][NextBfs]_vars

\* The generator is a sequential loop: it always takes its next step.
SpecBfsFair == SpecBfs /\ WF_vars(NextBfs)

(***************************************************************************)
(* The states reachable from the start state under mutate, as a least      *)
(* fixed point over State vectors (independent of the generator).          *)
(***************************************************************************)
RECURSIVE ReachFrom(_, _)
ReachFrom(seen, frontier) ==
    IF frontier = {} THEN seen
    ELSE LET nxt == {mutate[s, a] : s \in frontier, a \in SpecialChar} \ seen
         IN ReachFrom(seen \cup nxt, nxt)

ReachableStates == ReachFrom({start}, {start})

ReachableEncodings == {encode[s] : s \in ReachableStates}

TableBefores == {lookup_table[i][1] : i \in 1..Len(lookup_table)}

TableAfters == {lookup_table[i][2] : i \in 1..Len(lookup_table)}

(***************************************************************************)
(* C3: every row (before, after, input) of the returned table is           *)
(* consistent with the transition function:                                *)
(* encode(mutate(decode(before), classify(input))) = after.                *)
(***************************************************************************)
C3_RowsConsistent ==
    bfs_pc = "done" =>
        \A i \in 1..Len(lookup_table) :
            LET row == lookup_table[i]
            IN encode[mutate[decode[row[1]], SpecialChar_from(row[3])]] = row[2]

\* the generator returned a table that holds a row leaving the start state
C3_Witness ==
    /\ bfs_pc = "done"
    /\ \E i \in 1..Len(lookup_table) : lookup_table[i] = <<0, 2, 123>>
    /\ \E i \in 1..Len(lookup_table) : lookup_table[i] = <<2, 656, 34>>

(***************************************************************************)
(* C4: completeness and closure.  When the generator returns, the set of   *)
(* `before` values is exactly the set of encodings of the states reachable *)
(* from the start state, every `after` occurs as a `before`, and each      *)
(* `before` has a row for every symbol 0..255.                             *)
(***************************************************************************)
C4_TableComplete ==
    bfs_pc = "done" =>
        /\ TableBefores = ReachableEncodings
        /\ TableAfters \subseteq TableBefores
        /\ LET rows == {<<lookup_table[i][1], lookup_table[i][3]>> : i \in 1..Len(lookup_table)}
           IN rows = TableBefores \X (0..255)

\* the generator returned, and the table covers a state two steps from the start
C4_Witness ==
    /\ bfs_pc = "done"
    /\ 656 \in TableBefores
    /\ Cardinality(TableBefores) > 2

(***************************************************************************)
(* C5: the generator terminates: the work stack eventually becomes empty   *)
(* and the loop exits, after expanding at most 2^11 distinct encodings     *)
(* (every expansion is of an encoding not expanded before, so the table    *)
(* never holds more than 256 rows per expanded encoding).                  *)
(***************************************************************************)
C5_Terminates ==
    /\ <>(bfs_pc = "done" /\ bfs_buffer = <<>>)
    /\ [](/\ Cardinality(bfs_memory) <= 2 ^ 11
          /\ Len(lookup_table) <= Cardinality(bfs_memory) * (last_symbol + 1))

\* the loop has exited with an empty work stack after expanding several states
C5_Witness ==
    /\ bfs_pc = "done" /\ bfs_buffer = <<>>
    /\ Cardinality(bfs_memory) > 2
    /\ Len(lookup_table) = Cardinality(bfs_memory) * (last_symbol + 1)

(***************************************************************************)
(* The field F of the structural circuit.  The tests run it over bn256's   *)
(* Fr; the model takes the prime field of order FieldModulus, the least    *)
(* prime above the byte range.  For inputs of at most MaxRows bytes every  *)
(* value the gates compare (a byte, a flag, a level within MaxRows of 0)   *)
(* is the same residue in both fields, and inverses are field inverses.    *)
(***************************************************************************)
FieldModulus == 257

FAdd(a, b) == (a + b) % FieldModulus

FSub(a, b) == (a + FieldModulus - b) % FieldModulus

FMul(a, b) == (a * b) % FieldModulus

\* x^e in F, by squaring
fpow[x \in 0..(FieldModulus - 1), e \in Nat] ==
    IF e = 0 THEN 1
    ELSE LET h == fpow[x, e \div 2]
         IN FMul(FMul(h, h), IF e % 2 = 1 THEN x ELSE 1)

RECURSIVE inverses_of(_, _)
\* <<lo^-1, ..., hi^-1>>
inverses_of(lo, hi) ==
    IF lo > hi THEN <<>>
    ELSE IF lo = hi THEN <<fpow[lo, FieldModulus - 2]>>
    ELSE LET mid == (lo + hi) \div 2
         IN inverses_of(lo, mid) \o inverses_of(mid + 1, hi)

\* the inverses of the non-zero elements of F
inverses == inverses_of(1, FieldModulus - 1)

\* Field::invert().unwrap() of a non-zero element
invert(x) == inverses[x]

bs_ord == 92     \* F::from(0x5c)
dq_ord == 34     \* F::from(0x22)
ob_ord == 123    \* F::from(0x7b)
cb_ord == 125    \* F::from(0x7d)

\* The input symbols the model draws from: the four structural symbols and 'a'.
CircuitSymbols == {bs_ord, dq_ord, ob_ord, cb_ord, 97}

RECURSIVE SeqsUpTo(_, _)
\* all sequences over S of length at most n
SeqsUpTo(S, n) ==
    IF n = 0 THEN {<<>>}
    ELSE LET shorter == SeqsUpTo(S, n - 1)
         IN shorter \cup {Append(q, x) : q \in {r \in shorter : Len(r) = n - 1}, x \in S}

(***************************************************************************)
(* JsonCircuit::synthesize: the witness loop, one action per row.          *)
(***************************************************************************)
\* let mut not_str = F::one(); let mut level = F::zero(); ...
acc_init == [not_str |-> 1, level |-> 0, level_inv |-> 1, str_esc |-> 0, str_esc_prev |-> 0]

\* level_inv = if level == F::zero() {F::one()} else {level.invert().unwrap()}
inv_or_one(x) == IF x = 0 THEN 1 ELSE invert(x)

\* match_special with braces counted whether or not a string is open
match_special_countsInStr(a, x) ==
    IF x = dq_ord /\ a.str_esc_prev = 0
    THEN [a EXCEPT !.not_str = FSub(1, a.not_str)]
    ELSE IF x = ob_ord
    THEN [a EXCEPT !.level = FAdd(a.level, 1), !.level_inv = 1]
    ELSE IF x = cb_ord
    THEN [a EXCEPT !.level = FSub(a.level, 1), !.level_inv = 1]
    ELSE IF x = bs_ord /\ a.str_esc_prev = 0
    THEN [a EXCEPT !.str_esc = FMul(FSub(1, a.not_str), 1)]
    ELSE a

\* match_special toggling not_str on every double quote, escaped or not
match_special_togglesEscaped(a, x) ==
    IF x = dq_ord
    THEN [a EXCEPT !.not_str = FSub(1, a.not_str)]
    ELSE IF x = ob_ord
    THEN [a EXCEPT !.level = FAdd(a.level, a.not_str),
                   !.level_inv = inv_or_one(FAdd(a.level, a.not_str))]
    ELSE IF x = cb_ord
    THEN [a EXCEPT !.level = FSub(a.level, a.not_str),
                   !.level_inv = inv_or_one(FSub(a.level, a.not_str))]
    ELSE IF x = bs_ord /\ a.str_esc_prev = 0
    THEN [a EXCEPT !.str_esc = FMul(FSub(1, a.not_str), 1)]
    ELSE a

\* match_special raising str_esc on a backslash outside a string too
match_special_escapesOutside(a, x) ==
    IF x = dq_ord /\ a.str_esc_prev = 0
    THEN [a EXCEPT !.not_str = FSub(1, a.not_str)]
    ELSE IF x = ob_ord
    THEN [a EXCEPT !.level = FAdd(a.level, a.not_str),
                   !.level_inv = inv_or_one(FAdd(a.level, a.not_str))]
    ELSE IF x = cb_ord
    THEN [a EXCEPT !.level = FSub(a.level, a.not_str),
                   !.level_inv = inv_or_one(FSub(a.level, a.not_str))]
    ELSE IF x = bs_ord /\ a.str_esc_prev = 0
    THEN [a EXCEPT !.str_esc = 1]
    ELSE a

\* match_special counting a colon as an open brace
match_special_countsColon(a, x) ==
    IF x = dq_ord /\ a.str_esc_prev = 0
    THEN [a EXCEPT !.not_str = FSub(1, a.not_str)]
    ELSE IF x = ob_ord \/ x = 58
    THEN [a EXCEPT !.level = FAdd(a.level, a.not_str),
                   !.level_inv = inv_or_one(FAdd(a.level, a.not_str))]
    ELSE IF x = cb_ord
    THEN [a EXCEPT !.level = FSub(a.level, a.not_str),
                   !.level_inv = inv_or_one(FSub(a.level, a.not_str))]
    ELSE IF x = bs_ord /\ a.str_esc_prev = 0
    THEN [a EXCEPT !.str_esc = FMul(FSub(1, a.not_str), 1)]
    ELSE a

\* the side effects of the flag closure on the row's symbol x
match_special(a, x) ==
    IF x = dq_ord /\ a.str_esc_prev = 0
    THEN [a EXCEPT !.not_str = FSub(1, a.not_str)]
    ELSE IF x = ob_ord
    THEN [a EXCEPT !.level = FAdd(a.level, a.not_str),
                   !.level_inv = inv_or_one(FAdd(a.level, a.not_str))]
    ELSE IF x = cb_ord
    THEN [a EXCEPT !.level = FSub(a.level, a.not_str),
                   !.level_inv = inv_or_one(FSub(a.level, a.not_str))]
    ELSE IF x = bs_ord /\ a.str_esc_prev = 0
    THEN [a EXCEPT !.str_esc = FMul(FSub(1, a.not_str), 1)]
    ELSE a

\* esc_step without the nullification of a consumed escape
esc_step_keepsEscape(a) == [a EXCEPT !.str_esc_prev = a.str_esc]

\* str_esc = str_esc * (F::one() - str_esc_prev); str_esc_prev = str_esc;
esc_step(a) ==
    LET e == FMul(a.str_esc, FSub(1, a.str_esc_prev))
    IN [a EXCEPT !.str_esc = e, !.str_esc_prev = e]

\* if x == special_char { F::one() } else { F::zero() }
flag_of(x, special_char) == IF x = special_char THEN 1 ELSE 0

\* if x == special_char {F::one()} else {(*x - special_char).invert().unwrap()}
inv_of(x, special_char) == IF x = special_char THEN 1 ELSE invert(FSub(x, special_char))

\* selectors with the body test off by one: `idx < n` for `idx < n - 1`
selectors_noEndRow(idx, n) ==
    [json_all |-> 1,
     start_selector |-> IF idx = 0 THEN 1 ELSE 0,
     body_selector |-> IF idx # 0 /\ idx < n THEN 1 ELSE 0,
     end_selector |-> IF idx # 0 /\ ~(idx < n) THEN 1 ELSE 0]

\* the selectors enabled on row idx of n
selectors(idx, n) ==
    [json_all |-> 1,
     start_selector |-> IF idx = 0 THEN 1 ELSE 0,
     body_selector |-> IF idx # 0 /\ idx < n - 1 THEN 1 ELSE 0,
     end_selector |-> IF idx # 0 /\ ~(idx < n - 1) THEN 1 ELSE 0]

\* the cells and selectors of one row
make_row(x, a, sel) ==
    [raw |-> x,
     backslash |-> flag_of(x, bs_ord), double_quote |-> flag_of(x, dq_ord),
     open_brace |-> flag_of(x, ob_ord), close_brace |-> flag_of(x, cb_ord),
     backslash_inv |-> inv_of(x, bs_ord), double_quote_inv |-> inv_of(x, dq_ord),
     open_brace_inv |-> inv_of(x, ob_ord), close_brace_inv |-> inv_of(x, cb_ord),
     not_str |-> a.not_str, str_escaped |-> a.str_esc,
     level |-> a.level, level_inv |-> a.level_inv,
     json_all |-> sel.json_all, start_selector |-> sel.start_selector,
     body_selector |-> sel.body_selector, end_selector |-> sel.end_selector]

InitCircuit ==
    /\ GrammarIdle /\ BfsIdle
    /\ raw \in SeqsUpTo(CircuitSymbols, MaxRows)
    /\ region = <<>>
    /\ acc = acc_init
    /\ circ_pc = "assign"

\* the body of `for (idx, r) in self.raw.iter().enumerate()`
SynthesizeRow ==
    /\ circ_pc = "assign"
    /\ Len(region) < Len(raw)
    /\ LET idx == Len(region)
           x == raw[idx + 1]
           a == esc_step(match_special(acc, x))
       IN /\ acc' = a
          /\ region' = Append(region, make_row(x, a, selectors(idx, Len(raw))))
    /\ UNCHANGED <<raw, circ_pc, grammarVars, bfsVars>>

\* the loop is over: Ok(())
SynthesizeReturn ==
    /\ circ_pc = "assign"
    /\ Len(region) = Len(raw)
    /\ circ_pc' = "done"
    /\ UNCHANGED <<raw, region, acc, grammarVars, bfsVars>>

NextCircuit == SynthesizeRow \/ SynthesizeReturn

SpecCircuit == InitCircuit /\ [][NextCircuit]_vars

(***************************************************************************)
(* JsonConfig::configure: the seven gates.  Each operator is the vector    *)
(* the gate's closure returns, evaluated at a row cur with the row above   *)
(* it, prev, for the cells queried at Rotation(-1).                        *)
(***************************************************************************)
FMul3(a, b, c) == FMul(FMul(a, b), c)

FMul4(a, b, c, d) == FMul(FMul3(a, b, c), d)

\* flag * (one - flag)
bool_expr(f) == FMul(f, FSub(1, f))

gate_Booleans(cur) ==
    LET all == cur.json_all
    IN <<FMul(all, bool_expr(cur.not_str)),
         FMul(all, bool_expr(cur.backslash)),
         FMul(all, bool_expr(cur.double_quote)),
         FMul(all, bool_expr(cur.open_brace)),
         FMul(all, bool_expr(cur.close_brace)),
         FMul(all, bool_expr(cur.str_escaped))>>

\* (r - k) * inv + flag - one
is_zero_expr(r, k, inv, f) == FSub(FAdd(FMul(FSub(r, k), inv), f), 1)

gate_CharBooleans(cur) ==
    LET struct_s == cur.body_selector
        r == cur.raw
    IN <<FMul3(struct_s, FSub(r, bs_ord), cur.backslash),
         FMul3(struct_s, FSub(r, dq_ord), cur.double_quote),
         FMul3(struct_s, FSub(r, ob_ord), cur.open_brace),
         FMul3(struct_s, FSub(r, cb_ord), cur.close_brace),
         FMul(struct_s, is_zero_expr(r, bs_ord, cur.backslash_inv, cur.backslash)),
         FMul(struct_s, is_zero_expr(r, dq_ord, cur.double_quote_inv, cur.double_quote)),
         FMul(struct_s, is_zero_expr(r, ob_ord, cur.open_brace_inv, cur.open_brace)),
         FMul(struct_s, is_zero_expr(r, cb_ord, cur.close_brace_inv, cur.close_brace))>>

gate_TerminalConditions(cur) ==
    LET start_s == cur.start_selector
        end_s == cur.end_selector
    IN <<FMul(start_s, FSub(cur.raw, ob_ord)),
         FMul(start_s, FSub(1, cur.not_str)),
         FMul(start_s, FSub(1, cur.open_brace)),
         FMul(start_s, cur.backslash),
         FMul(start_s, cur.close_brace),
         FMul(start_s, cur.double_quote),
         FMul(start_s, FSub(cur.level, 1)),
         FMul(start_s, FSub(cur.level, 1)),
         FMul(end_s, FSub(1, cur.not_str)),
         FMul(end_s, FSub(1, cur.close_brace))>>

gate_ToggleNotStr(cur, prev) ==
    LET struct_s == cur.body_selector
        dq == cur.double_quote
        e == cur.not_str
        e_prev == prev.not_str
    IN <<FMul3(struct_s, FSub(1, dq), FSub(e, e_prev)),
         FMul4(struct_s, dq, FSub(1, prev.str_escaped), FSub(FAdd(e, e_prev), 1))>>

gate_BackslashEscaping(cur, prev) ==
    LET struct_s == cur.body_selector
        ns == cur.not_str
    IN <<FMul3(struct_s, ns, cur.backslash),
         FMul3(struct_s, prev.str_escaped, cur.str_escaped),
         FMul4(struct_s, FSub(1, ns), FSub(1, prev.str_escaped),
               FSub(cur.backslash, cur.str_escaped))>>

gate_CountLevels(cur, prev) ==
    LET struct_s == cur.body_selector
        end_s == cur.end_selector
        ob == cur.open_brace
        cb == cur.close_brace
        l == cur.level
        l_prev == prev.level
    IN <<FMul3(struct_s, FSub(FSub(1, ob), cb), FSub(l, l_prev)),
         FMul4(struct_s, cur.not_str, ob, FSub(FSub(l, l_prev), 1)),
         FMul4(struct_s, cur.not_str, cb, FAdd(FSub(l, l_prev), 1)),
         FMul4(end_s, cur.not_str, cb, FAdd(FSub(l, l_prev), 1))>>

\* "Check level structure" without its body-row polynomial
gate_CheckLevelStructure_endOnly(cur) ==
    <<FMul(cur.end_selector, cur.level), 0>>

gate_CheckLevelStructure(cur) ==
    <<FMul(cur.end_selector, cur.level),
      FMul(cur.body_selector, FSub(1, FMul(cur.level, cur.level_inv)))>>

\* every polynomial of a gate evaluates to zero
all_zero(exprs) == \A k \in 1..Len(exprs) : exprs[k] = 0

\* every gate holds at row cur
gates_hold(cur, prev) ==
    /\ all_zero(gate_TerminalConditions(cur))
    /\ all_zero(gate_CharBooleans(cur))
    /\ all_zero(gate_Booleans(cur))
    /\ all_zero(gate_ToggleNotStr(cur, prev))
    /\ all_zero(gate_BackslashEscaping(cur, prev))
    /\ all_zero(gate_CountLevels(cur, prev))
    /\ all_zero(gate_CheckLevelStructure(cur))

\* a row no cell of which was assigned: what Rotation(-1) reads above row 0
unassigned_row ==
    [raw |-> 0, backslash |-> 0, double_quote |-> 0, open_brace |-> 0, close_brace |-> 0,
     backslash_inv |-> 0, double_quote_inv |-> 0, open_brace_inv |-> 0, close_brace_inv |-> 0,
     not_str |-> 0, str_escaped |-> 0, level |-> 0, level_inv |-> 0,
     json_all |-> 0, start_selector |-> 0, body_selector |-> 0, end_selector |-> 0]

row_above(reg, i) == IF i = 1 THEN unassigned_row ELSE reg[i - 1]

\* MockProver::run(..).verify(): the assigned region satisfies every gate on every row
verify(reg) == \A i \in 1..Len(reg) : gates_hold(reg[i], row_above(reg, i))

(***************************************************************************)
(* The reading of a byte sequence the circuit claims are stated against:   *)
(* strings open and close at double quotes not preceded by an escaping     *)
(* backslash, and braces count only outside strings.                       *)
(***************************************************************************)
RECURSIVE ScanRaw(_, _)
ScanRaw(seq, k) ==
    IF k = 0 THEN [inStr |-> FALSE, esc |-> FALSE, depth |-> 0, stray |-> FALSE]
    ELSE LET p == ScanRaw(seq, k - 1)
             c == seq[k]
         IN IF p.inStr
            THEN IF p.esc THEN [p EXCEPT !.esc = FALSE]
                 ELSE IF c = bs_ord THEN [p EXCEPT !.esc = TRUE]
                 ELSE IF c = dq_ord THEN [p EXCEPT !.inStr = FALSE]
                 ELSE p
            ELSE IF c = dq_ord THEN [p EXCEPT !.inStr = TRUE]
                 ELSE IF c = ob_ord THEN [p EXCEPT !.depth = p.depth + 1]
                 ELSE IF c = cb_ord THEN [p EXCEPT !.depth = p.depth - 1]
                 ELSE IF c = bs_ord THEN [p EXCEPT !.stray = TRUE]
                 ELSE p

WellFormed(seq) ==
    /\ Len(seq) >= 2
    /\ seq[1] = ob_ord
    /\ seq[Len(seq)] = cb_ord
    /\ ~ScanRaw(seq, Len(seq)).inStr
    /\ ~ScanRaw(seq, Len(seq)).stray
    /\ \A k \in 1..(Len(seq) - 1) : ScanRaw(seq, k).depth >= 1
    /\ ScanRaw(seq, Len(seq)).depth = 0

\* C8: once synthesize has assigned the rows of a well-formed input (it starts
\* with an open brace, ends with a close brace, closes every string, has
\* backslashes only inside strings, and its brace depth outside strings is at
\* least 1 before the last symbol and 0 after it), the assigned witness
\* satisfies every enabled constraint of every gate on every row.
C8_CircuitAcceptance ==
    (circ_pc = "done" /\ WellFormed(raw)) => verify(region)

\* a well-formed input with an escaped quote in a string, assigned and verified
C8_Witness ==
    /\ circ_pc = "done"
    /\ WellFormed(raw)
    /\ Len(raw) = MaxRows
    /\ \E i \in 1..Len(region) : region[i].str_escaped = 1 /\ region[i].body_selector = 1
    /\ verify(region)

\* the level of the row above row i, 0 above the first row
level_above(reg, i) == IF i = 1 THEN 0 ELSE reg[i - 1].level

\* C9: in the witness synthesize assigns, a row holding an open or close brace
\* while not_str is 0 has the level of the row above it, and the level differs
\* from the row above only on an open brace row with not_str = 1, by +1, or on
\* a close brace row with not_str = 1, by -1.
C9_BracesInStrings ==
    \A i \in 1..Len(region) :
        LET cur == region[i]
            l_prev == level_above(region, i)
        IN /\ (cur.raw \in {ob_ord, cb_ord} /\ cur.not_str = 0) => cur.level = l_prev
           /\ cur.level # l_prev =>
                  /\ cur.not_str = 1
                  /\ \/ cur.raw = ob_ord /\ cur.level = FAdd(l_prev, 1)
                     \/ cur.raw = cb_ord /\ cur.level = FSub(l_prev, 1)

\* a brace row inside a string that holds a backslash-escaped quote
C9_Witness ==
    \E i \in 4..Len(region) :
        /\ region[i].raw \in {ob_ord, cb_ord}
        /\ region[i].not_str = 0
        /\ region[i - 1].raw = dq_ord
        /\ region[i - 2].str_escaped = 1
        /\ region[i].level = region[i - 1].level
        /\ region[i].level = 1

(***************************************************************************)
(* Satisfiability of the constraint system.  The selectors are fixed by    *)
(* synthesize; the advice cells are the prover's.  A prover other than     *)
(* synthesize assigns the rows in order, each with any flags, not_str and  *)
(* str_escaped in {0, 1} and any level in prover_levels for which the     *)
(* gates hold at that row (gates query the row and the row above only).    *)
(* The inverse cells appear in one polynomial each, so they take the value *)
(* that zeroes it whenever one exists.                                     *)
(***************************************************************************)
\* the inverse cell that zeroes (r - k) * inv + flag - one, when one exists
prover_inv(x, k, f) == IF x = k THEN 1 ELSE FMul(FSub(1, f), invert(FSub(x, k)))

prover_row(x, bs, dq, ob, cb, ns, se, l, sel) ==
    [raw |-> x,
     backslash |-> bs, double_quote |-> dq, open_brace |-> ob, close_brace |-> cb,
     backslash_inv |-> prover_inv(x, bs_ord, bs), double_quote_inv |-> prover_inv(x, dq_ord, dq),
     open_brace_inv |-> prover_inv(x, ob_ord, ob), close_brace_inv |-> prover_inv(x, cb_ord, cb),
     not_str |-> ns, str_escaped |-> se,
     level |-> l, level_inv |-> inv_or_one(l),
     json_all |-> sel.json_all, start_selector |-> sel.start_selector,
     body_selector |-> sel.body_selector, end_selector |-> sel.end_selector]

\* the level cell is a field element: the small levels and the element -1
prover_levels == (0..MaxProverLevel) \cup {FieldModulus - 1}

\* the rows a prover may write for symbol x under the selectors sel
prover_rows(x, sel) ==
    {prover_row(x, bs, dq, ob, cb, ns, se, l, sel) :
        bs \in {0, 1}, dq \in {0, 1}, ob \in {0, 1}, cb \in {0, 1},
        ns \in {0, 1}, se \in {0, 1}, l \in prover_levels}

InitProver ==
    /\ GrammarIdle /\ BfsIdle
    /\ raw \in {q \in SeqsUpTo(CircuitSymbols, MaxProverRows) : Len(q) >= 2}
    /\ region = <<>>
    /\ acc = acc_init
    /\ circ_pc = "prove"

\* one more row of an assignment that satisfies the gates so far
ProverAssignRow ==
    /\ circ_pc = "prove"
    /\ Len(region) < Len(raw)
    /\ \E cur \in prover_rows(raw[Len(region) + 1], selectors(Len(region), Len(raw))) :
          /\ gates_hold(cur, row_above(region, Len(region) + 1))
          /\ region' = Append(region, cur)
    /\ UNCHANGED <<raw, acc, circ_pc, grammarVars, bfsVars>>

\* every row is assigned and every gate holds on every row: verify() is Ok
ProverAccept ==
    /\ circ_pc = "prove"
    /\ Len(region) = Len(raw)
    /\ verify(region)
    /\ circ_pc' = "accepted"
    /\ UNCHANGED <<raw, region, acc, grammarVars, bfsVars>>

NextProver == ProverAssignRow \/ ProverAccept

SpecProver == InitProver /\ [][NextProver]_vars

\* the braces outside strings do not balance
Unbalanced(seq) == ScanRaw(seq, Len(seq)).depth # 0

\* C10: no assignment of the witness columns satisfies all the enabled
\* constraints when the braces of the input outside strings are unbalanced.
C10_CircuitRejection ==
    ~(circ_pc = "accepted" /\ Unbalanced(raw))

\* C11: in an assignment that satisfies the constraints enabled on the end
\* row, the raw symbol of the end row is the close brace 0x7d.
C11_EndRowCloseBrace ==
    \A i \in 1..Len(region) :
        region[i].end_selector = 1 => region[i].raw = cb_ord

\* C12: an input of fewer than 2 symbols is rejected before any cell is
\* assigned, and never ends in an assignment on which the enabled constraints
\* hold.
C12_MalformedRowCount ==
    Len(raw) < 2 =>
        /\ region = <<>>
        /\ ~(circ_pc = "done" /\ verify(region))

\* C13: the start state has IsValue set and IsKey clear, so check_or of the two
\* is true, and check_and of the two is true once IsKey is switched on.
C13_StartState ==
    input = <<>> =>
        /\ state = start
        /\ check(state, IsValue)
        /\ ~check(state, IsKey)
        /\ check_or(state, <<IsValue, IsKey>>)
        /\ check_and(on[state, IsKey], <<IsValue, IsKey>>)

(***************************************************************************)
(* The fold of the tests over a string of symbols: each char is classified *)
(* by SpecialChar::from and the class is given to mutate.                  *)
(***************************************************************************)
Symbols == 0..255

InitClassify ==
    /\ GrammarIdle /\ BfsIdle
    /\ raw \in SeqsUpTo(Symbols, MaxChars)
    /\ region = <<>> /\ acc = <<>> /\ circ_pc = "idle"

\* let action = SpecialChar::from(c); let end_state = state.mutate(action);
ClassifyStep ==
    /\ Len(input) < Len(raw)
    /\ LET action == SpecialChar_from(raw[Len(input) + 1])
       IN /\ state' = mutate[state, action]
          /\ input' = Append(input, action)
    /\ UNCHANGED <<obj, bfsVars, circuitVars>>

NextClassify == ClassifyStep

SpecClassify == InitClassify /\ [][NextClassify]_vars

\* the class the classifier is said to give symbol c
ClassOfSymbol(c) ==
    IF c = 92 THEN "Backslash"
    ELSE IF c = 34 THEN "DoubleQuote"
    ELSE IF c = 123 THEN "OpenBrace"
    ELSE IF c = 125 THEN "CloseBrace"
    ELSE IF c = 58 THEN "Colon"
    ELSE IF c = 44 THEN "Comma"
    ELSE IF c \in {9, 10, 11, 12, 13, 32, 133, 160} THEN "WhiteSpace"
    ELSE IF c \in 48..57 \cup {46} THEN "Numeric"
    ELSE "Other"

\* C14: every symbol 0..255 is given exactly one of the nine classes: the six
\* punctuation symbols their own class, whitespace WhiteSpace, the digits and
\* '.' Numeric, and every other symbol Other.
C14_ClassifierTotal ==
    \A k \in 1..Len(input) :
        /\ input[k] \in SpecialChar
        /\ input[k] = ClassOfSymbol(raw[k])

\* '.' has been classified, as Numeric
C14_Witness ==
    /\ raw = <<46>>
    /\ input = <<"Numeric">>
    /\ state = <<IsInvalid>>

(***************************************************************************)
(* A State built from State::new() by any of on, off, flip and mutate.     *)
(* obj.len counts the operations applied.                                  *)
(***************************************************************************)
InitOps == Init

OpsDone == [obj EXCEPT !.len = obj.len + 1]

OpOn(bit) ==
    /\ obj.len < MaxOps
    /\ state' = on[state, bit]
    /\ obj' = OpsDone
    /\ UNCHANGED <<input, bfsVars, circuitVars>>

OpOff(bit) ==
    /\ obj.len < MaxOps
    /\ state' = off[state, bit]
    /\ obj' = OpsDone
    /\ UNCHANGED <<input, bfsVars, circuitVars>>

OpFlip(bit) ==
    /\ obj.len < MaxOps
    /\ state' = flip[state, bit]
    /\ obj' = OpsDone
    /\ UNCHANGED <<input, bfsVars, circuitVars>>

OpMutate(action) ==
    /\ obj.len < MaxOps
    /\ state' = mutate[state, action]
    /\ obj' = OpsDone
    /\ UNCHANGED <<input, bfsVars, circuitVars>>

NextOps ==
    \/ \E bit \in StateBits : OpOn(bit)
    \/ \E bit \in StateBits : OpOff(bit)
    \/ \E bit \in StateBits : OpFlip(bit)
    \/ \E action \in SpecialChar : OpMutate(action)

SpecOps == InitOps /\ [][NextOps]_vars

RECURSIVE BitSum(_, _)
\* the sum of 2^i over the indices i of F that are at least k
BitSum(F, k) ==
    IF k > WordComplete THEN 0
    ELSE (IF k \in F THEN 2 ^ k ELSE 0) + BitSum(F, k + 1)

\* C15: the encoding of a State built by new, on, off, flip and mutate is the
\* sum of 2^i over its set flags, each counted once, with the indices
\* IsInvalid = 0 .. WordComplete = 10; the empty state encodes to 0,
\* {IsInvalid} to 1, and every encoding is below 2^11.
C15_EncodeBitSum ==
    /\ <<IsInvalid, NewDict, EndDict, Separator, IsKey, IsValue, KeyValueDelimiter,
         IsStr, IsStrEscaped, WordBuffering, WordComplete>>
           = <<0, 1, 2, 3, 4, 5, 6, 7, 8, 9, 10>>
    /\ encode[state] = BitSum(Flags(state), 0)
    /\ encode[state] < 2 ^ 11
    /\ Flags(state) = {} => encode[state] = 0
    /\ Flags(state) = {IsInvalid} => encode[state] = 1

\* three flags switched on out of bit order
C15_Witness ==
    /\ state = <<WordComplete, IsValue, EndDict>>
    /\ encode[state] = 1024 + 32 + 4
    /\ obj.len = MaxOps

(***************************************************************************)
(* Inputs of the shape of test_json_escaped_chars_3: an object whose key   *)
(* "a" is followed by two string literals with a blank between them.       *)
(***************************************************************************)
\* what a string literal holds: a plain symbol, a brace, or an escape pair
StringTokens == {<<97>>, <<ob_ord>>, <<cb_ord>>, <<bs_ord, dq_ord>>, <<bs_ord, bs_ord>>}

RECURSIVE StringBodies(_)
StringBodies(n) ==
    IF n = 0 THEN {<<>>}
    ELSE StringBodies(n - 1) \cup {b \o t : b \in StringBodies(n - 1), t \in StringTokens}

StringLiterals == {<<dq_ord>> \o b \o <<dq_ord>> : b \in StringBodies(MaxLiteral)}

\* {"a":v1 v2}
AdjacentInputs ==
    {<<ob_ord, dq_ord, 97, dq_ord, 58>> \o v1 \o <<32>> \o v2 \o <<cb_ord>> :
        v1 \in StringLiterals, v2 \in StringLiterals}

InitAdjacent ==
    /\ GrammarIdle /\ BfsIdle
    /\ raw \in AdjacentInputs
    /\ region = <<>>
    /\ acc = acc_init
    /\ circ_pc = "assign"

SpecAdjacent == InitAdjacent /\ [][NextCircuit]_vars

\* a string closes at symbol i, a blank follows, and the next symbol opens a string
AdjacentLiterals(seq) ==
    \E i \in 2..(Len(seq) - 2) :
        /\ seq[i] = dq_ord
        /\ ScanRaw(seq, i - 1).inStr /\ ~ScanRaw(seq, i).inStr
        /\ seq[i + 1] = 32
        /\ seq[i + 2] = dq_ord

\* C16: the witness synthesize assigns to a well-formed input that holds two
\* adjacent string literals separated by a blank, with no comma or colon
\* between them, satisfies every enabled constraint: the circuit checks braces
\* and quotes, not the key/value format.
C16_AdjacentLiterals ==
    (circ_pc = "done" /\ WellFormed(raw) /\ AdjacentLiterals(raw)) => verify(region)

\* such an input, with a brace and an escaped quote in its literals, verified
C16_Witness ==
    /\ circ_pc = "done"
    /\ raw = <<ob_ord, dq_ord, 97, dq_ord, 58, dq_ord, cb_ord, dq_ord, 32,
               dq_ord, bs_ord, dq_ord, dq_ord, cb_ord>>
    /\ WellFormed(raw) /\ AdjacentLiterals(raw)
    /\ verify(region)

(***************************************************************************)
(* mutate applied to any State: the start of a run is State::decode(id)    *)
(* for any id below 2^11, as in the generator's `State::decode(before)`.   *)
(***************************************************************************)
AllStates == {decode[id] : id \in 0..(2 ^ 11 - 1)}

InitAll ==
    /\ state \in AllStates
    /\ input = <<>>
    /\ obj = ObjStart
    /\ BfsIdle /\ CircuitIdle

\* let end_state = state.mutate(action);
MutateAny(action) ==
    /\ Len(input) < MaxApply
    /\ state' = mutate[state, action]
    /\ input' = Append(input, action)
    /\ UNCHANGED <<obj, bfsVars, circuitVars>>

NextAll == \E action \in SpecialChar : MutateAny(action)

SpecAll == InitAll /\ [][NextAll]_vars

(***************************************************************************)
(* The transition function as the specification words it, on flag sets.    *)
(***************************************************************************)
RefSettleOne(F, marker, target) ==
    IF marker \in F THEN (F \cup {target}) \ {marker} ELSE F

RefSettle(F) ==
    RefSettleOne(RefSettleOne(RefSettleOne(RefSettleOne(F,
        NewDict, IsKey), EndDict, WordComplete), Separator, IsKey),
        KeyValueDelimiter, IsValue)

RefInvalid == {IsInvalid}

RefStructural(S, a) ==
    IF a = "OpenBrace"
    THEN IF IsValue \in S /\ WordComplete \notin S
         THEN (S \cup {NewDict}) \ {IsValue} ELSE RefInvalid
    ELSE IF a = "CloseBrace"
    THEN IF IsValue \in S
         THEN (S \cup {EndDict}) \ {WordComplete, WordBuffering} ELSE RefInvalid
    ELSE IF a = "Comma"
    THEN IF IsValue \in S
         THEN (S \cup {Separator}) \ {IsValue, WordComplete, WordBuffering}
         ELSE RefInvalid
    ELSE IF a = "Colon"
    THEN IF IsKey \in S
         THEN (S \cup {KeyValueDelimiter}) \ {IsKey, WordComplete} ELSE RefInvalid
    ELSE IF a = "DoubleQuote"
    THEN IF WordComplete \in S THEN RefInvalid ELSE S \cup {IsStr, WordBuffering}
    ELSE IF a = "WhiteSpace"
    THEN IF IsValue \in S /\ WordBuffering \in S
         THEN (S \cup {WordComplete}) \ {WordBuffering} ELSE S
    ELSE IF a = "Numeric"
    THEN IF IsValue \in S /\ WordComplete \notin S
         THEN S \cup {WordBuffering} ELSE RefInvalid
    ELSE RefInvalid

RefMutate(F, a) ==
    IF IsInvalid \in F THEN F
    ELSE LET S == RefSettle(F)
         IN IF IsStrEscaped \in S THEN S \ {IsStrEscaped}
            ELSE IF S = {}
            THEN IF a = "OpenBrace" THEN {NewDict}
                 ELSE IF a = "WhiteSpace" THEN {}
                 ELSE RefInvalid
            ELSE IF IsStr \in S
            THEN IF a = "Backslash" THEN S \cup {IsStrEscaped}
                 ELSE IF a = "DoubleQuote"
                 THEN (S \cup {WordComplete}) \ {WordBuffering, IsStr}
                 ELSE S
            ELSE RefStructural(S, a)

\* C17: for each of the 2^11 flag sets and each of the 9 classes, mutate
\* gives the flag set of the reference transition function: the invalid sink,
\* then the four settle rules, escape consumption, the empty-state rule, the
\* in-string rule and the structural rules; an invalid outcome is the
\* singleton {IsInvalid}.
C17_MutateIsReference ==
    [][\A a \in SpecialChar :
          input' = Append(input, a) =>
              /\ Flags(state') = RefMutate(Flags(state), a)
              /\ (~check(state, IsInvalid) /\ check(state', IsInvalid))
                     => state' = <<IsInvalid>>]_vars

\* a CloseBrace has closed a value and dropped its word flags
C17_Witness ==
    /\ input = <<"CloseBrace">>
    /\ state = <<IsValue, EndDict>>

\* C18: from any state without IsInvalid that has IsStrEscaped set, mutate
\* gives, whatever the class, the settled state with IsStrEscaped cleared and
\* nothing else changed: an escaped DoubleQuote leaves IsStr as it is and an
\* escaped Backslash does not set IsStrEscaped again.
C18_EscapeConsumption ==
    [][(/\ ~check(state, IsInvalid)
        /\ check(state, IsStrEscaped)
        /\ Len(input') = Len(input) + 1) =>
           /\ Flags(state') = RefSettle(Flags(state)) \ {IsStrEscaped}
           /\ check(state, IsStr) <=> check(state', IsStr)
           /\ ~check(state', IsStrEscaped)]_vars

\* an escaped DoubleQuote was consumed: the string is still open beside a
\* completed word, which no unescaped DoubleQuote leaves behind
C18_Witness ==
    /\ input = <<"DoubleQuote">>
    /\ state = <<IsValue, IsStr, WordBuffering, WordComplete>>

\* C19: from a reachable state with IsStr set and IsStrEscaped and IsInvalid
\* clear, mutate under any class but Backslash and DoubleQuote returns a state
\* with the same flag set, and does not set IsInvalid.
C19_InertInString ==
    [][(/\ check(state, IsStr)
        /\ ~check(state, IsStrEscaped)
        /\ ~check(state, IsInvalid)
        /\ Len(input') = Len(input) + 1
        /\ input'[Len(input')] \notin {"Backslash", "DoubleQuote"}) =>
           /\ Flags(state') = Flags(state)
           /\ ~check(state', IsInvalid)]_vars

\* a CloseBrace read inside a key string
C19_Witness ==
    /\ input = <<"OpenBrace", "DoubleQuote", "CloseBrace">>
    /\ state = <<IsKey, IsStr, WordBuffering>>

(***************************************************************************)
(* Distance of an encoding from the start encoding, in transitions of the  *)
(* table: the layers of a breadth-first traversal.                         *)
(***************************************************************************)
EncodedSuccessors(e) == {encode[mutate[decode[e], a]] : a \in SpecialChar}

RECURSIVE DistanceLayers(_, _, _)
\* the pairs <<encoding, distance>> of the layers from `frontier` on
DistanceLayers(seen, frontier, d) ==
    IF frontier = {} THEN {}
    ELSE LET nxt == UNION {EncodedSuccessors(e) : e \in frontier} \ seen
         IN {<<e, d>> : e \in frontier} \cup DistanceLayers(seen \cup nxt, nxt, d + 1)

Distances == DistanceLayers({encode[start]}, {encode[start]}, 0)

Distance(e) == CHOOSE d \in 0..Cardinality(Distances) : <<e, d>> \in Distances

\* C20: the generator expands states in breadth-first order: no encoding at
\* distance d+1 is popped before every reachable encoding at distance d has
\* been expanded, so the rows of the table come in non-decreasing distance of
\* their `before`.
C20_BreadthFirstOrder ==
    /\ bfs_pc = "row" =>
           \A p \in Distances : p[2] < Distance(before) => p[1] \in bfs_memory
    /\ \A i \in 1..(Len(lookup_table) - 1) :
           Distance(lookup_table[i][1]) <= Distance(lookup_table[i + 1][1])

(***************************************************************************)
(* Bookkeeping of the generator's work stack and visited set.              *)
(***************************************************************************)
NoDuplicates(seq) ==
    \A a, b \in 1..Len(seq) : a # b => seq[a] # seq[b]

RowKeys(table) == {<<table[k][1], table[k][3]>> : k \in 1..Len(table)}

\* C21: at every step of the generator the work stack holds no encoding twice
\* and no encoding that is already in the visited set, every pop takes an
\* encoding that was never popped before, and the returned table has no two
\* rows with the same (before, input) pair.
C21_StackBookkeeping ==
    /\ [](/\ NoDuplicates(bfs_buffer)
          /\ \A k \in 1..Len(bfs_buffer) : bfs_buffer[k] \notin bfs_memory
          /\ bfs_pc = "done" =>
                 Cardinality(RowKeys(lookup_table)) = Len(lookup_table))
    /\ [][bfs_pc = "pop" /\ bfs_pc' = "row" => before' \notin bfs_memory]_vars

\* The loop has skipped after-states that were already on the stack or visited:
\* three states are expanded, four wait on the stack.
C21_Witness ==
    /\ bfs_pc = "pop"
    /\ Cardinality(bfs_memory) = 3
    /\ Len(bfs_buffer) >= 3
    /\ Len(lookup_table) = 3 * (last_symbol + 1)

(***************************************************************************)
(* Malformed inputs, read off the raw symbols with the lexical scan.       *)
(***************************************************************************)
PrematureClose(seq) ==
    \E k \in 2..(Len(seq) - 1) : ScanRaw(seq, k).depth = 0

OpenAtEnd(seq) == ScanRaw(seq, Len(seq)).depth # 0

UnterminatedString(seq) == ScanRaw(seq, Len(seq)).inStr

BadFirstSymbol(seq) == seq[1] # ob_ord

Malformed(seq) ==
    \/ PrematureClose(seq)
    \/ OpenAtEnd(seq)
    \/ UnterminatedString(seq)
    \/ BadFirstSymbol(seq)

\* C22: for every input of at least two symbols in which the brace level
\* outside strings reaches 0 at an interior row, or is not 0 after the last
\* symbol, or a string is still open at the last symbol, or the first symbol
\* is not an open brace, the witness that synthesize assigns violates at least
\* one enabled constraint.
C22_HonestRejection ==
    (circ_pc = "done" /\ Len(raw) >= 2 /\ Malformed(raw)) => ~verify(region)

\* `{}{}` assigned: the level is 0 on the interior row of the first `}`, and
\* no other kind of malformation is present
C22_Witness ==
    /\ circ_pc = "done"
    /\ raw = <<ob_ord, cb_ord, ob_ord, cb_ord>>
    /\ PrematureClose(raw)
    /\ ~OpenAtEnd(raw) /\ ~UnterminatedString(raw) /\ ~BadFirstSymbol(raw)
    /\ region[2].level = 0 /\ region[2].body_selector = 1
    /\ ~verify(region)

(***************************************************************************)
(* The string columns of the assigned witness, row by row.                 *)
(***************************************************************************)
\* not_str and str_escaped of the row above row i; 1 and 0 above the first row
not_str_above(reg, i) == IF i = 1 THEN 1 ELSE reg[i - 1].not_str

str_escaped_above(reg, i) == IF i = 1 THEN 0 ELSE reg[i - 1].str_escaped

\* C23: with not_str taken as 1 (and str_escaped as 0) before row 0, the
\* not_str value synthesize assigns to a row differs from the previous row's
\* exactly when the row's symbol is a double quote and the previous row's
\* str_escaped is 0.
C23_StringToggle ==
    \A i \in 1..Len(region) :
        (region[i].not_str # not_str_above(region, i))
            <=> (raw[i] = dq_ord /\ str_escaped_above(region, i) = 0)

\* `{"\"` assigned: the escaped quote of row 3 leaves not_str at 0, the
\* unescaped quote of row 1 toggled it
C23_Witness ==
    /\ Len(region) >= 4
    /\ raw[2] = dq_ord /\ region[2].not_str = 0 /\ region[1].not_str = 1
    /\ raw[3] = bs_ord /\ region[3].str_escaped = 1
    /\ raw[4] = dq_ord /\ region[4].not_str = 0

\* C24: the str_escaped value synthesize assigns to a row is 1 exactly when
\* the row's symbol is a backslash, the row's not_str is 0 and the previous
\* row's str_escaped is 0, and is 0 otherwise; it is never 1 on two consecutive
\* rows and never 1 on a row outside a string.
C24_EscapeFlag ==
    \A i \in 1..Len(region) :
        /\ region[i].str_escaped =
               IF /\ raw[i] = bs_ord
                  /\ region[i].not_str = 0
                  /\ str_escaped_above(region, i) = 0
               THEN 1 ELSE 0
        /\ ~(region[i].str_escaped = 1 /\ str_escaped_above(region, i) = 1)
        /\ ~(region[i].str_escaped = 1 /\ region[i].not_str = 1)

\* `\"\\` assigned: the backslash of row 0 is outside a string and no escape,
\* the first backslash in the string is an escape, the second is consumed by it
C24_Witness ==
    /\ Len(region) >= 4
    /\ raw[3] = bs_ord /\ region[3].not_str = 0 /\ region[3].str_escaped = 1
    /\ raw[4] = bs_ord /\ region[4].not_str = 0 /\ region[4].str_escaped = 0
    /\ raw[1] = bs_ord /\ region[1].not_str = 1 /\ region[1].str_escaped = 0

(***************************************************************************)
(* The level column in the assignments a prover can make.                  *)
(***************************************************************************)
\* C25: in every assignment that satisfies all enabled constraints the level
\* at the end row is 0, the level at the row before the end row is 1, and the
\* level at every body row is an integer in 1..n, never a wrapped-around field
\* element such as p - 1.
C25_LevelWellFormed ==
    circ_pc = "accepted" =>
        /\ region[Len(region)].level = 0
        /\ region[Len(region) - 1].level = 1
        /\ \A i \in 1..Len(region) :
               region[i].body_selector = 1 => region[i].level \in 1..Len(raw)

\* C26: in every assignment that satisfies all enabled constraints, on a body
\* row the level equals the previous row's level unless the symbol is an open
\* or close brace with not_str = 1; in particular a brace on a body row with
\* not_str = 0 leaves the level as it was.
C26_LevelPinned ==
    circ_pc = "accepted" =>
        \A i \in 2..Len(region) :
            (/\ region[i].body_selector = 1
             /\ ~(raw[i] \in {ob_ord, cb_ord} /\ region[i].not_str = 1))
                => region[i].level = level_above(region, i)

(***************************************************************************)
(* The selectors of the assigned rows.                                     *)
(***************************************************************************)
bit(b) == IF b THEN 1 ELSE 0

\* C27: for every non-empty input of length n synthesize enables `all` on
\* every row, `start` on row 0 only, `end` on row n - 1 only and `body` on the
\* rows strictly between; no row carries more than one of start, body and end,
\* and the final row always carries `end`.
C27_SelectorTagging ==
    (circ_pc = "done" /\ Len(raw) >= 1) =>
        LET n == Len(raw)
        IN /\ Len(region) = n
           /\ \A i \in 1..n :
                 /\ region[i].json_all = 1
                 /\ region[i].start_selector = bit(i = 1)
                 /\ region[i].end_selector = bit(i = n)
                 /\ region[i].body_selector = bit(1 < i /\ i < n)
                 /\ region[i].start_selector + region[i].body_selector
                        + region[i].end_selector <= 1
           /\ region[n].end_selector = 1

(***************************************************************************)
(* Objects {"a":v}, with v a run of digits and decimal points or a string, *)
(* followed by further close braces, folded as the tests fold a string.    *)
(***************************************************************************)
\* runs of '1' and '.'
NumericRuns == SeqsUpTo({49, 46}, MaxRun) \ {<<>>}

RECURSIVE CloseBraces(_)
CloseBraces(n) == IF n = 0 THEN <<>> ELSE Append(CloseBraces(n - 1), cb_ord)

\* {"a":v or {"a": v, then up to 1 + MaxSurplus close braces
ValueInputs ==
    {<<ob_ord, dq_ord, 97, dq_ord, 58>> \o ws \o v \o CloseBraces(n) :
        ws \in {<<>>, <<32>>},
        v \in NumericRuns \cup {<<dq_ord, 97, dq_ord>>},
        n \in 0..(1 + MaxSurplus)}

InitValue ==
    /\ GrammarIdle /\ BfsIdle
    /\ raw \in ValueInputs
    /\ region = <<>> /\ acc = <<>> /\ circ_pc = "idle"

SpecValue == InitValue /\ [][NextClassify]_vars

\* C28: in value position (the flags are {IsValue} or {KeyValueDelimiter}, or
\* {IsValue, WordBuffering} once a run has begun) every symbol of a run of
\* digits and decimal points, two or more '.' included, leaves the state free
\* of IsInvalid with exactly the flags {IsValue, WordBuffering}.
C28_DecimalPoints ==
    [][(/\ input' # input
        /\ Flags(state) \in {{IsValue}, {KeyValueDelimiter}, {IsValue, WordBuffering}}
        /\ raw[Len(input) + 1] \in (48..57) \cup {46})
           => (/\ ~check(state', IsInvalid)
               /\ Flags(state') = {IsValue, WordBuffering})]_vars

\* {"a":.1. has been read: two decimal points in one run
C28_Witness ==
    /\ Len(input) = 8
    /\ SubSeq(raw, 1, 8) = <<ob_ord, dq_ord, 97, dq_ord, 58, 46, 49, 46>>
    /\ Flags(state) = {IsValue, WordBuffering}

\* C29: from the flags {IsValue, EndDict}, reached after a close brace accepted
\* in value position, a further CloseBrace is accepted and yields
\* {IsValue, EndDict} again, so surplus close braces after a valid object never
\* set IsInvalid.
C29_SurplusCloseBraces ==
    [][(/\ input' # input
        /\ Flags(state) = {IsValue, EndDict}
        /\ raw[Len(input) + 1] = cb_ord)
           => (/\ ~check(state', IsInvalid)
               /\ Flags(state') = {IsValue, EndDict})]_vars

\* {"a":1}}} has been read: two surplus close braces after the object
C29_Witness ==
    /\ raw = <<ob_ord, dq_ord, 97, dq_ord, 58, 49, cb_ord, cb_ord, cb_ord>>
    /\ Len(input) = Len(raw)
    /\ Flags(state) = {IsValue, EndDict}

(***************************************************************************)
(* A run through the generated table next to the direct fold of mutate.    *)
(* lookup_table is the table bfs_gen_lookup_table returns, `before` is the *)
(* encoding the table-driven run has reached, `state` the State of the     *)
(* direct run from State::start(), and obj.len counts the symbols read.    *)
(***************************************************************************)
\* bfs_gen_lookup_table from a given table, work stack and visited set on:
\* each turn of the while loop pops, marks, emits the 256 rows and pushes
RECURSIVE bfs_loop(_, _, _)
bfs_loop(table, buffer, memory) ==
    IF buffer = <<>> THEN table
    ELSE LET b == buffer[Len(buffer)]
             popped == SubSeq(buffer, 1, Len(buffer) - 1)
             marked == memory \cup {b}
             rows == [k \in 1..(last_symbol + 1) |-> table_row(b, k - 1)]
         IN bfs_loop(table \o rows, pushed(rows, marked, popped), marked)

InitLookup ==
    /\ GrammarIdle /\ CircuitIdle
    /\ lookup_table = bfs_loop(<<>>, <<encode[start]>>, {})
    /\ bfs_buffer = <<>>
    /\ bfs_memory = {}
    /\ before = encode[start]
    /\ j = 0
    /\ bfs_pc = "done"

\* the rows of the table whose `before` is b
rows_from(table, b) == {k \in 1..Len(table) : table[k][1] = b}

\* one symbol c: the table-driven run follows a row (before, after, c), the
\* direct run applies mutate to the class of c
LookupStep ==
    /\ obj.len < MaxLookups
    /\ LET rows == rows_from(lookup_table, before)
       IN \E c \in Symbols :
             \E k \in {m \in rows : lookup_table[m][3] = c} :
                 /\ before' = lookup_table[k][2]
                 /\ state' = mutate[state, SpecialChar_from(c)]
    /\ obj' = OpsDone
    /\ UNCHANGED <<input, lookup_table, bfs_buffer, bfs_memory, j, bfs_pc, circuitVars>>

NextLookup == LookupStep

SpecLookup == InitLookup /\ [][NextLookup]_vars

\* C30: along every symbol sequence over 0..255 the table-driven run from
\* encoding 0 finds exactly one row for its current encoding and each symbol,
\* and its current encoding is the encoding of the state that folding mutate
\* from State::start() has reached; mutate gives the same flags for a State and
\* for the State decoded from its encoding, whatever the order of the flags.
C30_TableRunIsDirectRun ==
    LET rows == rows_from(lookup_table, before)
    IN /\ before = encode[state]
       /\ Cardinality(rows) = Cardinality(Symbols)
       /\ {lookup_table[k][3] : k \in rows} = Symbols
       /\ \A a \in SpecialChar :
             Flags(mutate[state, a]) = Flags(mutate[decode[encode[state]], a])

\* `{"\` has been read: the direct run holds IsStrEscaped after WordBuffering,
\* the table-driven run the encoding whose decoding lists them the other way
C30_Witness ==
    /\ obj.len = 3
    /\ state = <<IsKey, IsStr, WordBuffering, IsStrEscaped>>
    /\ before = encode[state]
    /\ decode[before] # state
    /\ Len(lookup_table) > 0

(***************************************************************************)
(* The fold of mutate from the start state, any class at each step;        *)
(* obj.len counts the transitions.                                         *)
(***************************************************************************)
InitFold == Init

\* state = state.mutate(action)
FoldStep(action) ==
    /\ obj.len < MaxFold
    /\ state' = mutate[state, action]
    /\ obj' = OpsDone
    /\ UNCHANGED <<input, bfsVars, circuitVars>>

NextFold == \E action \in SpecialChar : FoldStep(action)

SpecFold == InitFold /\ [][NextFold]_vars

Markers == {NewDict, EndDict, Separator, KeyValueDelimiter}

\* C31: in every state reachable from the start state under mutate, IsKey and
\* IsValue are never both set, and at most one of the markers NewDict, EndDict,
\* Separator and KeyValueDelimiter is set.
C31_KeyValueExclusive ==
    /\ ~(check(state, IsKey) /\ check(state, IsValue))
    /\ Cardinality(Flags(state) \cap Markers) <= 1

\* a close brace has been accepted in value position: a marker next to IsValue
C31_Witness ==
    /\ Flags(state) = {IsValue, EndDict}
    /\ obj.len >= 5

\* C32: in every state reachable from the start state under mutate,
\* IsStrEscaped set implies IsStr set, IsStr set implies WordBuffering set, and
\* WordBuffering and WordComplete are never both set.
C32_StringFlagsNested ==
    /\ check(state, IsStrEscaped) => check(state, IsStr)
    /\ check(state, IsStr) => check(state, WordBuffering)
    /\ ~(check(state, WordBuffering) /\ check(state, WordComplete))

\* a backslash has been read inside a string in value position
C32_Witness ==
    /\ Flags(state) = {IsValue, IsStr, WordBuffering, IsStrEscaped}
    /\ obj.len >= 6

RECURSIVE Blanks(_)
Blanks(n) == IF n = 0 THEN <<>> ELSE Append(Blanks(n - 1), 32)

EmptyObjectPrefixes ==
    {<<>>,
     <<32>>,
     <<ob_ord, dq_ord, 97, dq_ord, 58>>,
     <<ob_ord, dq_ord, 97, dq_ord, 58, 32>>,
     <<ob_ord, dq_ord, 97, dq_ord, 58, 49, 44, dq_ord, 98, dq_ord, 58>>}

EmptyObjectInputs ==
    {pre \o <<ob_ord>> \o Blanks(n) \o <<cb_ord>> :
        pre \in EmptyObjectPrefixes, n \in 0..MaxBlank}

InitEmpty ==
    /\ GrammarIdle /\ BfsIdle
    /\ raw \in EmptyObjectInputs
    /\ region = <<>> /\ acc = <<>> /\ circ_pc = "idle"

SpecEmpty == InitEmpty /\ [][NextClassify]_vars

\* an OpenBrace outside a string followed, after blanks only, by a CloseBrace
EmptyObject(seq) ==
    \E i \in 1..Len(seq) : \E k \in (i + 1)..Len(seq) :
        /\ seq[i] = "OpenBrace" /\ OutsideStr(seq, i)
        /\ \A m \in (i + 1)..(k - 1) : seq[m] = "WhiteSpace"
        /\ seq[k] = "CloseBrace"

\* C34: once an OpenBrace outside a string has been followed, after zero or
\* more WhiteSpace symbols, by a CloseBrace, at top level or as a nested value,
\* the state is {IsInvalid}.
C34_EmptyObjectRejected ==
    EmptyObject(input) => state = <<IsInvalid>>

\* {"a": { } has been read: an empty object with a blank, as a nested value
C34_Witness ==
    /\ raw = <<ob_ord, dq_ord, 97, dq_ord, 58, 32, ob_ord, 32, cb_ord>>
    /\ Len(input) = Len(raw)
    /\ EmptyObject(input)
    /\ state = <<IsInvalid>>

(***************************************************************************)
(* Two inputs with the four structural symbols at the same positions: one  *)
(* is assigned row by row (raw, region), the other is any variant of it,   *)
(* assigned by the same loop taken as a function of the input.             *)
(***************************************************************************)
StructuralSymbols == {bs_ord, dq_ord, ob_ord, cb_ord}

\* symbols that are none of the four: a letter, a colon, NUL and 0xff
OtherSymbols == {97, 58, 0, 255}

VariantSymbols == StructuralSymbols \cup {97, 58}

\* the loop of synthesize over the first k symbols of seq
RECURSIVE synthesize_rows(_, _)
synthesize_rows(seq, k) ==
    IF k = 0 THEN [region |-> <<>>, acc |-> acc_init]
    ELSE LET p == synthesize_rows(seq, k - 1)
             x == seq[k]
             a == esc_step(match_special(p.acc, x))
         IN [region |-> Append(p.region, make_row(x, a, selectors(k - 1, Len(seq)))),
             acc |-> a]

\* the region synthesize assigns for the input seq
synthesize(seq) == synthesize_rows(seq, Len(seq)).region

InitVariant ==
    /\ GrammarIdle /\ BfsIdle
    /\ raw \in SeqsUpTo(VariantSymbols, MaxVariantRows)
    /\ region = <<>>
    /\ acc = acc_init
    /\ circ_pc = "assign"

SpecVariant == InitVariant /\ [][NextCircuit]_vars

\* the inputs of the length of seq with the structural symbols of seq at the
\* same positions and any other symbols elsewhere
RECURSIVE Variants(_)
Variants(seq) ==
    IF seq = <<>> THEN {<<>>}
    ELSE LET heads == IF Head(seq) \in StructuralSymbols THEN {Head(seq)} ELSE OtherSymbols
         IN {<<h>> \o t : h \in heads, t \in Variants(Tail(seq))}

\* the columns of a row other than raw and the inverse witnesses
same_columns(r, w) ==
    /\ r.not_str = w.not_str /\ r.str_escaped = w.str_escaped
    /\ r.level = w.level
    /\ r.backslash = w.backslash /\ r.double_quote = w.double_quote
    /\ r.open_brace = w.open_brace /\ r.close_brace = w.close_brace

\* C35: for two inputs of equal length that have backslash, double quote, `{`
\* and `}` at exactly the same positions and arbitrary other symbols elsewhere,
\* the witnesses synthesize assigns have the same not_str, str_escaped, level
\* and flag columns, and both satisfy all enabled constraints or both violate
\* one.
C35_StructuralSymbolsOnly ==
    circ_pc = "done" =>
        \A q \in Variants(raw) :
            LET w == synthesize(q)
            IN /\ Len(w) = Len(region)
               /\ \A i \in 1..Len(region) : same_columns(region[i], w[i])
               /\ verify(w) <=> verify(region)

\* `{a:}` assigned and accepted; its variants differ from it in rows 1 and 2
C35_Witness ==
    /\ circ_pc = "done"
    /\ raw = <<ob_ord, 97, 58, cb_ord>>
    /\ Cardinality(Variants(raw)) = Cardinality(OtherSymbols) * Cardinality(OtherSymbols)
    /\ <<ob_ord, 255, 0, cb_ord>> \in Variants(raw)
    /\ verify(region)
    /\ verify(synthesize(<<ob_ord, 255, 0, cb_ord>>))

====
